---- MODULE Spec2Model ----
(***************************************************************************)
(* Model of parlai/tasks/style_gen/agents.py.                              *)
(*                                                                         *)
(*  - Spec      : PrevCurrUttStyleTeacher.act(), one step per statement    *)
(*                group, over a heap of Message objects so that the copy   *)
(*                made by copy.deepcopy and the object handed to the inner *)
(*                task are distinguishable.                                *)
(*  - SpecPath  : the constructors of the four Labeled* teachers and       *)
(*                get_style_labeled_data_path.                             *)
(*                                                                         *)
(* A string is a sequence of characters (or of atoms for paths); a Message *)
(* is a function from the keys it holds to their values, as a dict is; an  *)
(* optional value is <<>> or <<v>>.                                        *)
(***************************************************************************)
EXTENDS Integers, Sequences, FiniteSets, TLC

VARIABLES
    pc,            \* position inside PrevCurrUttStyleTeacher.act()
    heap,          \* Message objects: ref -> <<>> (unallocated) or <<message>>
    orig_act,      \* ref bound to local orig_act (0: unbound)
    new_act,       \* ref bound to local new_act (0: unbound)
    final_action,  \* ref bound to local final_action / returned (0: none)
    handed,        \* ref the inner task's process_action received (0: none)
    fetched,       \* value of the turn as get_orig_action produced it
    err,           \* exception raised by the current call ("none": none)
    fetchCalls,    \* get_orig_action invocations in the current call
    processCalls,  \* process_action invocations in the current call
    cpc,           \* position inside a Labeled*Teacher.__init__
    teacher,       \* the Labeled* class being constructed
    opt,           \* the opt dict
    buildCalls,    \* build_style_labeled_datasets invocations in this call
    ret_path,      \* return value of get_style_labeled_data_path (<<>>: none)
    reader_datafile \* datafile the generic reader saw when constructed

actVars == <<pc, heap, orig_act, new_act, final_action, handed, fetched, err,
             fetchCalls, processCalls>>
ctorVars == <<cpc, teacher, opt, buildCalls, ret_path, reader_datafile>>
vars == <<pc, heap, orig_act, new_act, final_action, handed, fetched, err,
          fetchCalls, processCalls, cpc, teacher, opt, buildCalls, ret_path,
          reader_datafile>>

----------------------------------------------------------------------------
(* Bounds of the model *)

MaxTextLen == 3
MaxLabelLen == 1
MaxLabels == 2
MaxDtLen == 3

----------------------------------------------------------------------------
(* Strings *)

NL == "\n"
Chars == {"a", NL}

SeqsUpTo(S, n) == UNION {[1..k -> S] : k \in 0..n}

Range(s) == {s[i] : i \in 1..Len(s)}

Last(s) == s[Len(s)]

\* str.split(sep): k separators give k + 1 pieces, possibly empty
RECURSIVE Split(_, _)
Split(s, sep) ==
    IF s = <<>> THEN << <<>> >>
    ELSE LET r == Split(Tail(s), sep) IN
         IF Head(s) = sep THEN << <<>> >> \o r
         ELSE << <<Head(s)>> \o Head(r) >> \o Tail(r)

----------------------------------------------------------------------------
(* Messages *)

Opt1(S) == {<<>>} \cup {<<v>> : v \in S}

\* the Message holding exactly the fields whose optional value is present
Msg(t, l, p, e) ==
    [k \in ((IF t = <<>> THEN {} ELSE {"text"})
            \cup (IF l = <<>> THEN {} ELSE {"labels"})
            \cup (IF p = <<>> THEN {} ELSE {"personality"})
            \cup (IF e = <<>> THEN {} ELSE {"episode_done"})) |->
        CASE k = "text" -> t[1]
          [] k = "labels" -> l[1]
          [] k = "personality" -> p[1]
          [] k = "episode_done" -> e[1]]

Texts == SeqsUpTo(Chars, MaxTextLen)
LabelStrs == SeqsUpTo(Chars, MaxLabelLen)
LabelLists == SeqsUpTo(LabelStrs, MaxLabels)
\* personality names, written in letters no utterance of the model uses
Personalities == {<<"C">>, <<"G">>}

\* the turns the inner task may produce
Turns ==
    {Msg(t, l, p, e) : t \in Opt1(Texts), l \in Opt1(LabelLists),
                       p \in Opt1(Personalities), e \in Opt1(BOOLEAN)}

Has(m, k) == k \in DOMAIN m

\* Message.force_set(key, value)
force_set(m, key, val) ==
    [k \in (DOMAIN m) \cup {key} |-> IF k = key THEN val ELSE m[k]]

Refs == 1..2
EmptyHeap == [r \in Refs |-> <<>>]

\* the Message the ref r denotes
Obj(r) == heap[r][1]

----------------------------------------------------------------------------
(* PrevCurrUttStyleTeacher.act() *)

\* new_act.force_set(key, val) on the object r of heap h
HeapSet(h, r, key, val) == [h EXCEPT ![r] = <<force_set(h[r][1], key, val)>>]

\* copy.deepcopy(orig_act): a fresh object with the same fields and values
Deepcopy(h, r) ==
    LET fresh == CHOOSE x \in Refs : h[x] = <<>> IN
    [heap |-> [h EXCEPT ![fresh] = h[r]], ref |-> fresh]

\* mutant: only an empty labels list is rejected
LabelsCheck_only_empty(labels) ==
    IF Len(labels) = 0 THEN "ValueError"
    ELSE IF NL \in Range(labels[1]) THEN "AssertionError"
    ELSE "none"

\* lines 125-129: the label count test, then the assert on labels[0]
LabelsCheck(labels) ==
    IF Len(labels) # 1 THEN "ValueError"
    ELSE IF NL \in Range(labels[1]) THEN "AssertionError"
    ELSE "none"

\* mutant: "or" in place of "and" in the assert
UnlabeledCheck_or(m) ==
    IF ~Has(m, "text") THEN "none"
    ELSE IF ~Has(m, "episode_done") THEN "KeyError"
    ELSE IF m["episode_done"] # TRUE THEN "AssertionError"
    ELSE "none"

\* mutant: the assert requires 'text' to be present
UnlabeledCheck_text_required(m) ==
    IF ~Has(m, "text") THEN "AssertionError"
    ELSE IF ~Has(m, "episode_done") THEN "KeyError"
    ELSE IF m["episode_done"] # TRUE THEN "AssertionError"
    ELSE "none"

\* line 136: assert 'text' not in orig_act and orig_act['episode_done'] is True
UnlabeledCheck(m) ==
    IF Has(m, "text") THEN "AssertionError"
    ELSE IF ~Has(m, "episode_done") THEN "KeyError"
    ELSE IF m["episode_done"] # TRUE THEN "AssertionError"
    ELSE "none"

\* line 132: new_act['text'].split('\n')[-1] + '\n' + labels[0]
PrevCurrText(text, label) == Last(Split(text, NL)) \o <<NL>> \o label

\* lines 124-134: the branch taken when 'labels' in orig_act
RewriteLabeled(h, o, n) ==
    LET labels == h[o][1]["labels"]
        c == LabelsCheck(labels)
    IN  IF c # "none" THEN [err |-> c, heap |-> h]
        ELSE IF ~Has(h[n][1], "text") THEN [err |-> "KeyError", heap |-> h]
        ELSE LET h1 == HeapSet(h, n, "text",
                               PrevCurrText(h[n][1]["text"], labels[1]))
             IN  IF ~Has(h1[n][1], "personality")
                 THEN [err |-> "KeyError", heap |-> h1]
                 ELSE [err |-> "none",
                       heap |-> HeapSet(h1, n, "labels",
                                        <<h1[n][1]["personality"]>>)]

\* lines 123-137: the field rewrite of new_act, o and n being the objects
\* bound to orig_act and new_act
Rewrite(h, o, n) ==
    LET r == IF Has(h[o][1], "labels") THEN RewriteLabeled(h, o, n)
             ELSE [err |-> UnlabeledCheck(h[o][1]), heap |-> h]
    IN  IF r.err # "none" THEN r
        ELSE [err |-> "none", heap |-> HeapSet(r.heap, n, "episode_done", TRUE)]

\* line 140: the argument of self.task.process_action(...)
ProcessArg == orig_act

\* FixedDialogTeacher.process_action: keeps the action and gives it back
process_action(r) == r

\* act() is entered (again after a return or a raise: the caller's next call)
act_enter ==
    /\ pc \in {"idle", "returned", "raised"}
    /\ pc' = "called"
    /\ heap' = EmptyHeap
    /\ orig_act' = 0 /\ new_act' = 0 /\ final_action' = 0 /\ handed' = 0
    /\ fetched' = <<>>
    /\ err' = "none"
    /\ fetchCalls' = 0 /\ processCalls' = 0
    /\ UNCHANGED ctorVars

\* line 119: orig_act = self.task.get_orig_action()
act_get_orig_action ==
    /\ pc = "called"
    /\ \E m \in Turns :
         /\ heap' = [heap EXCEPT ![1] = <<m>>]
         /\ fetched' = <<m>>
    /\ orig_act' = 1
    /\ fetchCalls' = fetchCalls + 1
    /\ pc' = "fetched"
    /\ UNCHANGED <<new_act, final_action, handed, err, processCalls>>
    /\ UNCHANGED ctorVars

\* line 122: new_act = copy.deepcopy(orig_act)
act_deepcopy ==
    /\ pc = "fetched"
    /\ LET c == Deepcopy(heap, orig_act) IN
         /\ heap' = c.heap
         /\ new_act' = c.ref
    /\ pc' = "copied"
    /\ UNCHANGED <<orig_act, final_action, handed, fetched, err, fetchCalls,
                   processCalls>>
    /\ UNCHANGED ctorVars

\* mutant: the advance step sits in a "finally" and runs on failure too
act_rewrite_advance_on_failure ==
    /\ pc = "copied"
    /\ LET r == Rewrite(heap, orig_act, new_act) IN
         /\ heap' = r.heap
         /\ err' = r.err
         /\ pc' = IF r.err = "none" THEN "rewritten" ELSE "raised"
         /\ processCalls' = IF r.err = "none" THEN processCalls
                            ELSE processCalls + 1
         /\ handed' = IF r.err = "none" THEN handed ELSE ProcessArg
    /\ UNCHANGED <<orig_act, new_act, final_action, fetched, fetchCalls>>
    /\ UNCHANGED ctorVars

\* lines 123-137: the checks and the rewrite; an exception ends the call
act_rewrite ==
    /\ pc = "copied"
    /\ LET r == Rewrite(heap, orig_act, new_act) IN
         /\ heap' = r.heap
         /\ err' = r.err
         /\ pc' = IF r.err = "none" THEN "rewritten" ELSE "raised"
    /\ UNCHANGED <<orig_act, new_act, final_action, handed, fetched,
                   fetchCalls, processCalls>>
    /\ UNCHANGED ctorVars

\* lines 140-142: final_action = self.task.process_action(...); return it
act_process_action ==
    /\ pc = "rewritten"
    /\ handed' = ProcessArg
    /\ processCalls' = processCalls + 1
    /\ final_action' = process_action(ProcessArg)
    /\ pc' = "returned"
    /\ UNCHANGED <<heap, orig_act, new_act, fetched, err, fetchCalls>>
    /\ UNCHANGED ctorVars

----------------------------------------------------------------------------
(* get_style_labeled_data_path and the Labeled* teachers *)

DtChars == {"t", "v", ":"}
Datatypes == SeqsUpTo(DtChars, MaxDtLen)
Datapaths == {"/data", "/tmp/parlai"}

LabeledTeachers ==
    {"LabeledBlendedSkillTalkTeacher",
     "LabeledConvAI2PersonaTopicifierTeacher",
     "LabeledEDPersonaTopicifierTeacher",
     "LabeledWoWPersonaTopicifierTeacher"}

\* the base_task each constructor passes (lines 52, 65, 78, 91)
BaseTask(t) ==
    CASE t = "LabeledBlendedSkillTalkTeacher" -> "blended_skill_talk"
      [] t = "LabeledConvAI2PersonaTopicifierTeacher" ->
             "blended_skill_talk:ConvAI2PersonaTopicifierTeacher"
      [] t = "LabeledEDPersonaTopicifierTeacher" ->
             "blended_skill_talk:EDPersonaTopicifierTeacher"
      [] t = "LabeledWoWPersonaTopicifierTeacher" ->
             "blended_skill_talk:WoWPersonaTopicifierTeacher"

\* build.get_style_labeled_data_folder(datapath)
get_style_labeled_data_folder(datapath) ==
    <<datapath, "/", "style_gen", "/", "labeled_datasets">>

\* os.path.join: a component that starts at the root replaces what precedes
\* it; otherwise one "/" separates it from a non-empty path not ending in "/"
RECURSIVE os_path_join(_)
os_path_join(parts) ==
    IF Len(parts) = 1 THEN parts[1]
    ELSE LET a == os_path_join(SubSeq(parts, 1, Len(parts) - 1))
             b == Last(parts)
         IN  IF b # <<>> /\ Head(b) = "/" THEN b
             ELSE IF a = <<>> \/ Last(a) = "/" THEN a \o b
             ELSE a \o <<"/">> \o b

\* mutant: the piece after the last ':' is taken
DatatypeStem_last(datatype) == Last(Split(datatype, ":"))

\* line 29: dt = opt['datatype'].split(':')[0]
DatatypeStem(datatype) == Head(Split(datatype, ":"))

\* lines 29-32: the value get_style_labeled_data_path returns
StyleLabeledDataPath(o, base_task) ==
    os_path_join(<<get_style_labeled_data_folder(o["datapath"]),
                   <<base_task>>,
                   DatatypeStem(o["datatype"]) \o <<".txt">> >>)

\* Labeled*Teacher.__init__(opt) is entered
Labeled_init_enter ==
    /\ cpc \in {"start", "constructed"}
    /\ \E t \in LabeledTeachers : teacher' = t
    /\ buildCalls' = 0
    /\ ret_path' = <<>>
    /\ reader_datafile' = <<>>
    /\ cpc' = "in_path_fn"
    /\ UNCHANGED opt
    /\ UNCHANGED actVars

\* line 27: build_style_labeled_datasets(opt)
path_build ==
    /\ cpc = "in_path_fn"
    /\ buildCalls' = buildCalls + 1
    /\ cpc' = "built"
    /\ UNCHANGED <<teacher, opt, ret_path, reader_datafile>>
    /\ UNCHANGED actVars

\* lines 29-32: compute and return the path
path_return ==
    /\ cpc = "built"
    /\ ret_path' = <<StyleLabeledDataPath(opt, BaseTask(teacher))>>
    /\ cpc' = "path_returned"
    /\ UNCHANGED <<teacher, opt, buildCalls, reader_datafile>>
    /\ UNCHANGED actVars

\* lines 51, 64, 77, 90: opt['parlaidialogteacher_datafile'] = <the path>
Labeled_store ==
    /\ cpc = "path_returned"
    /\ opt' = force_set(opt, "parlaidialogteacher_datafile", ret_path[1])
    /\ cpc' = "stored"
    /\ UNCHANGED <<teacher, buildCalls, ret_path, reader_datafile>>
    /\ UNCHANGED actVars

\* lines 54, 67, 80, 93: super().__init__(opt, shared), which reads the
\* datafile out of opt
Labeled_super_init ==
    /\ cpc = "stored"
    /\ reader_datafile' = <<opt["parlaidialogteacher_datafile"]>>
    /\ cpc' = "constructed"
    /\ UNCHANGED <<teacher, opt, buildCalls, ret_path>>
    /\ UNCHANGED actVars

----------------------------------------------------------------------------
(* Specifications *)

Opt0 == [k \in {"datatype", "datapath"} |->
            IF k = "datatype" THEN <<"t">> ELSE "/data"]

Opts == {[k \in {"datatype", "datapath"} |->
            IF k = "datatype" THEN d ELSE p] : d \in Datatypes, p \in Datapaths}

ActInit ==
    /\ pc = "idle"
    /\ heap = EmptyHeap
    /\ orig_act = 0 /\ new_act = 0 /\ final_action = 0 /\ handed = 0
    /\ fetched = <<>>
    /\ err = "none"
    /\ fetchCalls = 0 /\ processCalls = 0

CtorInit(o) ==
    /\ cpc = "start"
    /\ teacher = "none"
    /\ opt = o
    /\ buildCalls = 0
    /\ ret_path = <<>>
    /\ reader_datafile = <<>>

Init == ActInit /\ CtorInit(Opt0)

Next ==
    \/ act_enter
    \/ act_get_orig_action
    \/ act_deepcopy
    \/ act_rewrite
    \/ act_process_action

Spec == Init /\ [][Next]_vars

InitPath == ActInit /\ \E o \in Opts : CtorInit(o)

NextPath ==
    \/ Labeled_init_enter
    \/ path_build
    \/ path_return
    \/ Labeled_store
    \/ Labeled_super_init

SpecPath == InitPath /\ [][NextPath]_vars

----------------------------------------------------------------------------
(* Properties *)

\* the turn as the inner task produced it, and the turn act() returned
In == fetched[1]
Returned == Obj(final_action)

\* the rewrite step has run for the fetched turn
Rewritten == pc \in {"rewritten", "returned", "raised"}

Max(S) == CHOOSE x \in S : \A y \in S : y <= x

\* the part of s after its last occurrence of c, all of s when there is none
AfterLast(s, c) ==
    LET at == {i \in 1..Len(s) : s[i] = c} IN
    IF at = {} THEN s ELSE SubSeq(s, Max(at) + 1, Len(s))

\* the part of s before its first occurrence of c, all of s when there is none
BeforeFirst(s, c) ==
    LET at == {i \in 1..Len(s) : s[i] = c} IN
    IF at = {} THEN s
    ELSE SubSeq(s, 1, (CHOOSE i \in at : \A j \in at : i <= j) - 1)

Count(s, c) == Cardinality({i \in 1..Len(s) : s[i] = c})

OneLabel == fetched # <<>> /\ Has(In, "labels") /\ Len(In["labels"]) = 1

\* C1: a returned turn whose input had text T and the single newline-free
\* label L has text = (T after its last newline) + newline + L.
C1_ReturnedText ==
    (/\ pc = "returned"
     /\ OneLabel
     /\ NL \notin Range(In["labels"][1])
     /\ Has(In, "text"))
    => /\ Has(Returned, "text")
       /\ Returned["text"]
            = AfterLast(In["text"], NL) \o <<NL>> \o In["labels"][1]

\* C2: a returned turn whose input had a single label has labels = [P], P
\* the input's personality, and the reply label is no longer among them.
C2_ReturnedLabels ==
    (pc = "returned" /\ OneLabel /\ Has(In, "personality"))
    => /\ Has(Returned, "labels")
       /\ Returned["labels"] = <<In["personality"]>>
       /\ In["labels"][1] \notin Range(Returned["labels"])

\* C3: every returned turn has episode_done = True.
C3_EpisodeDoneForced ==
    pc = "returned"
    => Has(Returned, "episode_done") /\ Returned["episode_done"] = TRUE

\* C4: a labels field of any length other than one makes act() raise
\* ValueError; nothing is returned and the inner task is not advanced.
C4_LabelCountRejected ==
    (/\ Rewritten
     /\ Has(In, "labels")
     /\ Len(In["labels"]) # 1)
    => /\ pc = "raised"
       /\ err = "ValueError"
       /\ final_action = 0
       /\ processCalls = 0

C4_Witness ==
    /\ pc = "raised"
    /\ Has(In, "labels")
    /\ Len(In["labels"]) >= 2
    /\ Has(In, "text") /\ Has(In, "personality")

\* C5: an unlabeled turn that has text, or whose episode_done is not True,
\* makes act() fail in the consistency check of line 136 (the assert fails,
\* or its lookup of a missing episode_done does); nothing is returned.
C5_UnlabeledRejected ==
    (/\ Rewritten
     /\ ~Has(In, "labels")
     /\ \/ Has(In, "text")
        \/ ~Has(In, "episode_done")
        \/ In["episode_done"] # TRUE)
    => /\ pc = "raised"
       /\ err = (IF ~Has(In, "text") /\ ~Has(In, "episode_done")
                 THEN "KeyError" ELSE "AssertionError")
       /\ final_action = 0
       /\ processCalls = 0

C5_Witness ==
    /\ pc = "raised"
    /\ ~Has(In, "labels")
    /\ ~Has(In, "text")
    /\ Has(In, "episode_done") /\ In["episode_done"] = FALSE

\* C6: the terminal turn (no labels, no text, episode_done True) is
\* returned with exactly the fields and values it came with.
C6_TerminalTurnUnchanged ==
    (/\ pc \in {"returned", "raised"}
     /\ ~Has(In, "labels")
     /\ ~Has(In, "text")
     /\ Has(In, "episode_done") /\ In["episode_done"] = TRUE)
    => /\ pc = "returned"
       /\ err = "none"
       /\ DOMAIN Returned = DOMAIN In
       /\ Returned = In
       /\ ~Has(Returned, "text") /\ ~Has(Returned, "labels")
       /\ Returned["episode_done"] = TRUE

C6_Witness ==
    /\ pc = "returned"
    /\ ~Has(In, "labels")
    /\ ~Has(In, "text")
    /\ Has(In, "personality")

\* C7: a single label holding a newline makes act() fail and return
\* nothing, and so the text of every returned labeled turn holds exactly
\* one newline.
C7_OneNewlineInText ==
    /\ (Rewritten /\ OneLabel /\ NL \in Range(In["labels"][1]))
       => pc = "raised" /\ final_action = 0
    /\ (pc = "returned" /\ Has(In, "labels"))
       => Has(Returned, "text") /\ Count(Returned["text"], NL) = 1

\* the checks of lines 123-136 all pass on the message m
ChecksPass(m) ==
    IF Has(m, "labels")
    THEN /\ Len(m["labels"]) = 1
         /\ NL \notin Range(m["labels"][1])
         /\ Has(m, "text")
         /\ Has(m, "personality")
    ELSE /\ ~Has(m, "text")
         /\ Has(m, "episode_done")
         /\ m["episode_done"] = TRUE

\* C8: in one call get_orig_action runs exactly once, before the rewrite;
\* process_action runs exactly once, after the checks have passed, and
\* not at all in a call that fails.
C8_FetchOnceAdvanceOnce ==
    /\ fetchCalls = (IF pc \in {"idle", "called"} THEN 0 ELSE 1)
    /\ processCalls = (IF pc = "returned" THEN 1 ELSE 0)
    /\ pc = "copied" => fetchCalls = 1 /\ processCalls = 0 /\ handed = 0
    /\ processCalls > 0 => ChecksPass(In) /\ err = "none"
    /\ pc = "raised" => ~ChecksPass(In) /\ handed = 0 /\ final_action = 0

C8_Witness ==
    /\ pc = "raised"
    /\ err = "AssertionError"
    /\ fetchCalls = 1
    /\ Has(In, "labels")

\* C9: the rewrite is applied to a copy, the fetched turn keeping its
\* values, and that rewritten copy is what process_action receives and
\* what act() returns.
C9_RewrittenCopyReturned ==
    /\ pc \in {"copied", "rewritten", "returned", "raised"}
       => new_act # orig_act /\ Obj(orig_act) = In
    /\ pc = "returned" => handed = new_act /\ final_action = new_act

\* the file <folder>/<base task>/<datatype up to its first ':'>.txt
ExpectedPath(o, base_task) ==
    get_style_labeled_data_folder(o["datapath"])
        \o <<"/", base_task, "/">>
        \o BeforeFirst(o["datatype"], ":") \o <<".txt">>

\* C10: get_style_labeled_data_path runs the builder before it computes
\* the path, the path is <folder>/<base_task>/<dt>.txt with dt the
\* datatype up to its first ':', and each Labeled* teacher stores it, for
\* its own base task, in opt before the generic reader is constructed.
C10_DataPath ==
    /\ ret_path # <<>> => buildCalls = 1
    /\ cpc \in {"start", "in_path_fn"} => buildCalls = 0
    /\ cpc \in {"path_returned", "stored", "constructed"}
       => ret_path = <<ExpectedPath(opt, BaseTask(teacher))>>
    /\ cpc \in {"stored", "constructed"}
       => /\ Has(opt, "parlaidialogteacher_datafile")
          /\ opt["parlaidialogteacher_datafile"]
               = ExpectedPath(opt, BaseTask(teacher))
    /\ cpc \in {"in_path_fn", "built", "path_returned", "stored"}
       => reader_datafile = <<>>
    /\ cpc = "constructed"
       => reader_datafile = <<ExpectedPath(opt, BaseTask(teacher))>>
    /\ \A t1, t2 \in LabeledTeachers : BaseTask(t1) = BaseTask(t2) => t1 = t2
    /\ \A d \in Datatypes :
         BeforeFirst(d, ":") = BeforeFirst(opt["datatype"], ":")
         => \A t \in LabeledTeachers :
              StyleLabeledDataPath(force_set(opt, "datatype", d), BaseTask(t))
                = StyleLabeledDataPath(opt, BaseTask(t))

C10_Witness ==
    /\ cpc = "constructed"
    /\ teacher = "LabeledWoWPersonaTopicifierTeacher"
    /\ Len(opt["datatype"]) = 3
    /\ opt["datatype"][2] = ":"
    /\ opt["datatype"][1] # ":"

====
